---- MODULE Spec2Model ----
(***************************************************************************)
(* Model of mtd_debug.c (project/make_meta/mtd_updateEngeen): the four     *)
(* commands mtd_debug_info / read / write / erase and the operations they  *)
(* delegate to (showinfo, getregions, erase_flash, flash_to_file,          *)
(* file_to_flash).  One behaviour is one command invocation.  Every system *)
(* call is one step; its result is chosen by the environment.              *)
(*                                                                         *)
(* C integers: the target is 32-bit, so int, size_t, u_int32_t are 32 bits *)
(* wide.  A 32-bit value is held as its bit pattern read as a signed int   *)
(* (the way "int n = len" reads it): a length of 2^32-1 is held as -1.     *)
(* Unsigned comparisons of such patterns are made with ULt.                *)
(*                                                                         *)
(* Data: the byte at device position p is an opaque value identified by p, *)
(* the byte at source-file position q by q.  What a write puts somewhere   *)
(* is recorded as an extent naming the positions the bytes came from.      *)
(***************************************************************************)
EXTENDS Integers, Sequences, FiniteSets

\* ---------------------------------------------------------------- bounds
\* largest declared length, in 64 KiB chunks
MaxChunks == 2
\* device size, in 64 KiB blocks
DevBlocks == 3
\* largest region count the device reports
MaxRegions == 3

\* ------------------------------------------------------ program constants
\* #define BUF_SIZE (64 * 1024 * sizeof(u_int8_t))
BUF_SIZE == 64 * 1024

\* ------------------------------------------------------------- C integers
\* a < b for two 32-bit patterns read as unsigned (size_t)
ULt(a, b) == IF (a < 0) = (b < 0) THEN a < b ELSE b < 0

\* a - b on 32-bit ints, wrapping (n -= size)
Sub32(a, b) ==
  IF (a < 0) = (b < 0) THEN a - b
  ELSE IF a < 0
       THEN LET t == (a + 2147483647 + 1) - b
            IN IF t >= 0 THEN a - b ELSE (t + 2147483647) + 1
       ELSE LET t == (a - 2147483647) - b
            IN IF t <= 0 THEN a - b ELSE (t - 2147483647) - 2

\* --------------------------------------------------------------- inputs
Cmds == {"info", "read", "write", "erase"}

\* declared lengths; the two negative patterns are 2^31+1 and 2^32-1
Lens == {0, 1, BUF_SIZE - 1, BUF_SIZE, BUF_SIZE + 1}
        \cup {k * BUF_SIZE + d : k \in 2..MaxChunks, d \in {0, 1}}
        \cup {-2147483647, -1}

\* offsets as off_t; -1 is the value lseek itself returns on failure
Offsets == {0, BUF_SIZE, -1}

\* what lseek(fd, off, SEEK_SET) returns: off when the position was set,
\* -1 when it was not; a negative position is never set
LseekResults(off) == IF off < 0 THEN {-1} ELSE {off, -1}

\* sizes of the source file of a write-in
SrcSizes == {0, 1, BUF_SIZE, BUF_SIZE + 1, MaxChunks * BUF_SIZE + 1}

DevSize == DevBlocks * BUF_SIZE

\* the erase regions the driver knows, by index
DevRegion(k) == [offset |-> k * BUF_SIZE, erasesize |-> 4096, numblocks |-> 16]

VARIABLES
  cmd,       \* which mtd_debug_* command runs
  offset,    \* its offset argument
  len,       \* its length argument (32-bit pattern)
  srcSize,   \* bytes in the source file (write-in)
  pc,        \* position in the code
  fdMode,    \* access mode the device was opened with
  size, n, err,   \* locals of flash_to_file / file_to_flash
  buf,       \* "NULL" or "ptr": value of the local buf
  bufCap,    \* capacity of the block buf points to (32-bit pattern)
  bufFrom,   \* position the bytes now in the buffer came from
  devpos,    \* file position of the device handle
  filepos,   \* file position of the source file stream
  outFile,   \* destination file: extents <<device position, count>>
  devData,   \* device writes: records [at, from, cnt]
  region,    \* static struct region_info_user region[]
  nreg,      \* region count stored through *n
  i,         \* loop index of getregions
  ret,       \* result of the delegated operation (-1: not returned)
  cmdRet,    \* result of the command (-1: not returned)
  overrun,   \* a transfer went past the end of the staging buffer
  log,       \* system and library calls made so far, in order
  px,        \* argument x of printsize (32-bit pattern)
  pout       \* what printsize has printed: values with their suffix

vars == <<cmd, offset, len, srcSize, pc, fdMode, size, n, err, buf, bufCap,
          bufFrom, devpos, filepos, outFile, devData, region, nreg, i, ret,
          cmdRet, overrun, log, px, pout>>

prVars   == <<px, pout>>
xferVars == <<size, n, err, buf, bufCap, bufFrom>>
dataVars == <<devpos, filepos, outFile, devData>>
regVars  == <<region, nreg, i>>

\* one call: what was called, on what ("dev", "file", "heap"), at which
\* position or index, the count or size asked for, and the result
Call(c, o, a, q, r) == [call |-> c, obj |-> o, at |-> a, req |-> q, res |-> r]

IoctlNames == {"MEMGETINFO", "MEMGETREGIONCOUNT", "MEMGETREGIONINFO", "MEMERASE"}

ZeroRegion == [regionindex |-> 0, offset |-> 0, erasesize |-> 0, numblocks |-> 0]

Init ==
  /\ cmd \in Cmds
  /\ offset \in (IF cmd = "info" THEN {0} ELSE Offsets)
  /\ len \in (IF cmd = "info" THEN {0} ELSE Lens)
  /\ srcSize \in (IF cmd = "write" THEN SrcSizes ELSE {0})
  /\ pc = "open"
  /\ fdMode = "none"
  /\ size = 0 /\ n = 0 /\ err = 0
  /\ buf = "NULL" /\ bufCap = 0 /\ bufFrom = 0
  /\ devpos = 0 /\ filepos = 0
  /\ outFile = <<>> /\ devData = <<>>
  /\ region = [k \in 0..(MaxRegions - 1) |-> ZeroRegion]
  /\ nreg = 0 /\ i = 0
  /\ ret = -1 /\ cmdRet = -1
  /\ overrun = FALSE
  /\ log = <<>>
  /\ px = 0 /\ pout = <<>>

\* ------------------------------------------------------- command facade
\* variant: only info opens read-only
OpenModeM(c) == IF c = "info" THEN "O_RDONLY" ELSE "O_RDWR"

\* access mode each command opens the device with
OpenMode(c) == IF c \in {"info", "read"} THEN "O_RDONLY" ELSE "O_RDWR"

\* first step of the operation each command delegates to
Entry(c) == CASE c = "info"  -> "getmeminfo"
              [] c = "read"  -> "f2f_lseek"
              [] c = "write" -> "w_lseek"
              [] c = "erase" -> "memerase"

\* mtd_find_dev_node() and open(); either failing ends in errmsg_die()
OpenDevice ==
  /\ pc = "open"
  /\ \E found \in BOOLEAN, fd \in {-1, 3} :
       IF ~found
       THEN /\ pc' = "died"
            /\ UNCHANGED <<fdMode, log>>
       ELSE /\ log' = Append(log, Call("open", "dev", 0, 0, fd))
            /\ IF fd < 0
               THEN pc' = "died" /\ UNCHANGED fdMode
               ELSE pc' = Entry(cmd) /\ fdMode' = OpenMode(cmd)
  /\ UNCHANGED <<prVars, cmd, offset, len, srcSize, xferVars, dataVars, regVars,
                 ret, cmdRet, overrun>>

\* what each command returns: err as set from the operation's result
CmdResult(c, r) == IF c = "info" THEN 0 ELSE r

\* close(fd) after the operation returned; a failing close is errmsg_die()
CloseDevice ==
  /\ pc = "close"
  /\ \E r \in {0, -1} :
       /\ log' = Append(log, Call("close", "dev", 0, 0, r))
       /\ IF r < 0
          THEN pc' = "died" /\ UNCHANGED cmdRet
          ELSE pc' = "done" /\ cmdRet' = CmdResult(cmd, ret)
  /\ UNCHANGED <<prVars, cmd, offset, len, srcSize, fdMode, xferVars, dataVars,
                 regVars, ret, overrun>>

\* ------------------------------------------------ showinfo / getregions
\* showinfo: err = getmeminfo(fd, &mtd); if (err < 0) return 1;
GetMemInfo ==
  /\ pc = "getmeminfo"
  /\ \E e \in {0, -1} :
       /\ log' = Append(log, Call("MEMGETINFO", "dev", 0, 0, e))
       /\ IF e < 0
          THEN pc' = "close" /\ ret' = 1
          ELSE pc' = "regioncount" /\ UNCHANGED ret
  /\ UNCHANGED <<prVars, cmd, offset, len, srcSize, fdMode, xferVars, dataVars,
                 regVars, cmdRet, overrun>>

\* showinfo: err = getregions(...); if (err < 0) return 1; ...; return 0;
ShowinfoResult(e) == IF e < 0 THEN 1 ELSE 0

\* getregions: err = ioctl(fd, MEMGETREGIONCOUNT, n); if (err) return err;
\* a count of zero or less skips the loop and getregions returns 0
GetRegionCount ==
  /\ pc = "regioncount"
  /\ \E e \in {0, -1}, cnt \in 0..MaxRegions :
       /\ log' = Append(log, Call("MEMGETREGIONCOUNT", "dev", 0, 0, e))
       /\ IF e # 0
          THEN /\ pc' = "close" /\ ret' = ShowinfoResult(e)
               /\ UNCHANGED <<nreg, i>>
          ELSE /\ nreg' = cnt
               /\ i' = 0
               /\ IF 0 < cnt
                  THEN pc' = "regioninfo" /\ UNCHANGED ret
                  ELSE pc' = "close" /\ ret' = ShowinfoResult(0)
  /\ UNCHANGED <<prVars, cmd, offset, len, srcSize, fdMode, xferVars, dataVars,
                 region, cmdRet, overrun>>

\* the index getregions stores in regions[k] before querying it
RegionIndexFor(k) == k

\* variant: the loop does not look at the result of the query
RegionLoopGoesOnM(e, k, cnt) == k + 1 < cnt

\* getregions continues its loop after a query that returned e
RegionLoopGoesOn(e, k, cnt) == e = 0 /\ k + 1 < cnt

\* body of the getregions loop: regions[i].regionindex = i;
\* err = ioctl(fd, MEMGETREGIONINFO, &regions[i]); if (err) return err;
\* the driver fills offset, erasesize, numblocks of the region it was asked
GetRegionInfo ==
  /\ pc = "regioninfo"
  /\ i < nreg
  /\ \E e \in {0, -1} :
       LET idx == RegionIndexFor(i)
           asked == [region[i] EXCEPT !.regionindex = idx]
           filled == [asked EXCEPT !.offset = DevRegion(idx).offset,
                                   !.erasesize = DevRegion(idx).erasesize,
                                   !.numblocks = DevRegion(idx).numblocks]
       IN /\ log' = Append(log, Call("MEMGETREGIONINFO", "dev", idx, 0, e))
          /\ region' = [region EXCEPT ![i] = IF e = 0 THEN filled ELSE asked]
          /\ IF RegionLoopGoesOn(e, i, nreg)
             THEN i' = i + 1 /\ UNCHANGED <<pc, ret>>
             ELSE /\ i' = IF e = 0 THEN i + 1 ELSE i
                  /\ pc' = "close"
                  /\ ret' = ShowinfoResult(e)
  /\ UNCHANGED <<prVars, cmd, offset, len, srcSize, fdMode, xferVars, dataVars,
                 nreg, cmdRet, overrun>>

\* ------------------------------------------------------------ erase_flash
\* variant: the result of the erase command is tested with the wrong sign
MemEraseM ==
  /\ pc = "memerase"
  /\ \E e \in {0, -1} :
       /\ log' = Append(log, Call("MEMERASE", "dev", offset, len, e))
       /\ ret' = IF e > 0 THEN 1 ELSE 0
       /\ pc' = "close"
  /\ UNCHANGED <<prVars, cmd, offset, len, srcSize, fdMode, xferVars, dataVars,
                 regVars, cmdRet, overrun>>

\* erase.start = offset; erase.length = bytes; err = memerase(fd, &erase);
\* if (err < 0) return 1; return 0;
MemErase ==
  /\ pc = "memerase"
  /\ \E e \in {0, -1} :
       /\ log' = Append(log, Call("MEMERASE", "dev", offset, len, e))
       /\ ret' = IF e < 0 THEN 1 ELSE 0
       /\ pc' = "close"
  /\ UNCHANGED <<prVars, cmd, offset, len, srcSize, fdMode, xferVars, dataVars,
                 regVars, cmdRet, overrun>>

\* ------------------------------------------------- bulk transfer helpers
\* results the environment may give a read of sz bytes (size_t pattern)
\* from the device at position pos: an error or a count up to what was
\* asked and up to what the device still holds
ReadResults(sz, pos) ==
  LET avail == IF pos < DevSize THEN DevSize - pos ELSE 0
      most  == IF ULt(sz, avail) THEN sz ELSE avail
  IN {-1} \cup {k \in {0, 1, most - 1, most} : 0 <= k /\ k <= most}

\* results of a write of cnt bytes to the destination file
WriteFileResults(cnt) ==
  {-1} \cup {k \in {0, 1, cnt - 1, cnt} : 0 <= k /\ k <= cnt}

\* results of a write of sz bytes to the device at position pos
WriteDevResults(sz, pos) ==
  LET avail == IF pos < DevSize THEN DevSize - pos ELSE 0
      most  == IF ULt(sz, avail) THEN sz ELSE avail
  IN {-1} \cup {k \in {0, 1, most - 1, most} : 0 <= k /\ k <= most}

\* variant: the chunk is never cut down to the remaining tail
ChunkSizeM(nn, sz) == sz

\* if (n <= size) size = n;   (signed comparison of two ints)
ChunkSize(nn, sz) == IF nn <= sz THEN nn ELSE sz

\* variant: the fallback is taken after every failed allocation
NeedRetryM(sz) == TRUE

\* if (size != BUF_SIZE) { size = BUF_SIZE; goto retry; }
NeedRetry(sz) == sz # BUF_SIZE

\* free(p) as a logged call: req is 1 for a non-NULL pointer, 0 for NULL
FreeCall(p) == Call("free", "heap", 0, IF p = "NULL" THEN 0 ELSE 1, 0)

\* if (buf != NULL) free(buf);
FreeIfSet(p) == IF p # "NULL" THEN <<FreeCall(p)>> ELSE <<>>

\* fail: close(outfd); free(buf); return 1;
F2fFailCalls == <<Call("close", "file", 0, 0, 0), FreeCall(buf)>>

\* success exit: if (buf != NULL) free(buf); close(outfd); return 0;
F2fExitCalls == FreeIfSet(buf) \o <<Call("close", "file", 0, 0, 0)>>

\* int size = len; int n = len;
\* if (offset != lseek(fd, offset, SEEK_SET)) return 1;
F2fLseek ==
  /\ pc = "f2f_lseek"
  /\ size' = len /\ n' = len
  /\ \E res \in LseekResults(offset) :
       /\ log' = Append(log, Call("lseek", "dev", offset, 0, res))
       /\ devpos' = IF res = -1 THEN devpos ELSE res
       /\ IF offset # res
          THEN pc' = "close" /\ ret' = 1
          ELSE pc' = "f2f_creat" /\ UNCHANGED ret
  /\ UNCHANGED <<prVars, cmd, offset, len, srcSize, fdMode, err, buf, bufCap, bufFrom,
                 filepos, outFile, devData, regVars, cmdRet, overrun>>

\* outfd = creat(filename, 0666); if (outfd < 0) return 1;
F2fCreat ==
  /\ pc = "f2f_creat"
  /\ \E outfd \in {-1, 4} :
       /\ log' = Append(log, Call("creat", "file", 0, 0, outfd))
       /\ IF outfd < 0
          THEN pc' = "close" /\ ret' = 1
          ELSE pc' = "f2f_malloc" /\ UNCHANGED ret
  /\ outFile' = <<>>
  /\ UNCHANGED <<prVars, cmd, offset, len, srcSize, fdMode, xferVars, devpos, filepos,
                 devData, regVars, cmdRet, overrun>>

\* retry: buf = malloc(size); on NULL fall back to BUF_SIZE once, else fail
F2fMalloc ==
  /\ pc = "f2f_malloc"
  /\ \E ok \in BOOLEAN :
       LET c == Call("malloc", "heap", 0, size, IF ok THEN 1 ELSE 0)
       IN IF ok
          THEN /\ buf' = "ptr" /\ bufCap' = size
               /\ log' = Append(log, c)
               /\ pc' = "f2f_read"
               /\ UNCHANGED <<size, ret>>
          ELSE IF NeedRetry(size)
               THEN /\ size' = BUF_SIZE
                    /\ log' = Append(log, c)
                    /\ UNCHANGED <<pc, buf, bufCap, ret>>
               ELSE /\ log' = Append(log, c) \o F2fFailCalls
                    /\ pc' = "close" /\ ret' = 1
                    /\ UNCHANGED <<size, buf, bufCap>>
  /\ UNCHANGED <<prVars, cmd, offset, len, srcSize, fdMode, n, err, bufFrom, dataVars,
                 regVars, cmdRet, overrun>>

\* if (n <= size) size = n; err = read(fd, buf, size);
\* if (err < 0) goto fail;
F2fRead ==
  /\ pc = "f2f_read"
  /\ LET sz == ChunkSize(n, size)
     IN \E r \in ReadResults(sz, devpos) :
          /\ size' = sz
          /\ err' = r
          /\ IF r < 0
             THEN /\ log' = Append(log, Call("read", "dev", devpos, sz, r))
                              \o F2fFailCalls
                  /\ pc' = "close" /\ ret' = 1
                  /\ UNCHANGED <<devpos, bufFrom, overrun>>
             ELSE /\ log' = Append(log, Call("read", "dev", devpos, sz, r))
                  /\ devpos' = devpos + r
                  /\ bufFrom' = devpos
                  /\ overrun' = (overrun \/ ULt(bufCap, r))
                  /\ pc' = "f2f_write"
                  /\ UNCHANGED ret
  /\ UNCHANGED <<prVars, cmd, offset, len, srcSize, fdMode, n, buf, bufCap, filepos,
                 outFile, devData, regVars, cmdRet>>

\* variant: only a write error stops the copy
F2fChunkCopiedM(w, sz) == ~(w < 0)

\* the chunk counts as copied: neither (err < 0) nor (err != size)
F2fChunkCopied(w, sz) == ~(w < 0) /\ ~(w # sz)

\* the calls of one pass from write on: the fail path after a write that
\* did not copy the chunk, the exit calls after the last chunk
F2fWriteCalls(w) ==
  <<Call("write", "file", 0, err, w)>>
    \o (IF ~F2fChunkCopied(w, size) THEN F2fFailCalls
        ELSE IF Sub32(n, size) > 0 THEN <<>> ELSE F2fExitCalls)

\* err = write(outfd, buf, err); if (err < 0) goto fail;
\* if (err != size) goto fail; n -= size; } while (n > 0);
F2fWrite ==
  /\ pc = "f2f_write"
  /\ \E w \in WriteFileResults(err) :
       /\ err' = w
       /\ outFile' = IF w > 0 THEN Append(outFile, <<bufFrom, w>>)
                     ELSE outFile
       /\ log' = log \o F2fWriteCalls(w)
       /\ IF ~F2fChunkCopied(w, size)
          THEN /\ pc' = "close" /\ ret' = 1
               /\ UNCHANGED n
          ELSE /\ n' = Sub32(n, size)
               /\ IF n' > 0
                  THEN pc' = "f2f_read" /\ UNCHANGED ret
                  ELSE pc' = "close" /\ ret' = 0
  /\ UNCHANGED <<prVars, cmd, offset, len, srcSize, fdMode, size, buf, bufCap, bufFrom,
                 devpos, filepos, devData, regVars, cmdRet, overrun>>

\* ---------------------------------------------------------- file_to_flash
\* error exits after the buffer was allocated: free(buf); fclose(fp); return 1;
WFailCalls == <<FreeCall(buf), Call("fclose", "file", 0, 0, 0)>>

\* success exit: if (buf != NULL) free(buf); fclose(fp); return 0;
WExitCalls == FreeIfSet(buf) \o <<Call("fclose", "file", 0, 0, 0)>>

\* int size = len; int n = len;
\* if (offset != lseek(fd, offset, SEEK_SET)) return 1;
WLseek ==
  /\ pc = "w_lseek"
  /\ size' = len /\ n' = len
  /\ \E res \in LseekResults(offset) :
       /\ log' = Append(log, Call("lseek", "dev", offset, 0, res))
       /\ devpos' = IF res = -1 THEN devpos ELSE res
       /\ IF offset # res
          THEN pc' = "close" /\ ret' = 1
          ELSE pc' = "w_fopen" /\ UNCHANGED ret
  /\ UNCHANGED <<prVars, cmd, offset, len, srcSize, fdMode, err, buf, bufCap, bufFrom,
                 filepos, outFile, devData, regVars, cmdRet, overrun>>

\* fp = fopen(filename, "r"); if (fp == NULL) return 1;
WFopen ==
  /\ pc = "w_fopen"
  /\ \E fp \in {0, 1} :
       /\ log' = Append(log, Call("fopen", "file", 0, 0, fp))
       /\ IF fp = 0
          THEN pc' = "close" /\ ret' = 1
          ELSE pc' = "w_malloc" /\ UNCHANGED ret
  /\ filepos' = 0
  /\ UNCHANGED <<prVars, cmd, offset, len, srcSize, fdMode, xferVars, devpos, outFile,
                 devData, regVars, cmdRet, overrun>>

\* retry: buf = malloc(size); on NULL fall back to BUF_SIZE once, else
\* fclose(fp); return 1;
WMalloc ==
  /\ pc = "w_malloc"
  /\ \E ok \in BOOLEAN :
       LET c == Call("malloc", "heap", 0, size, IF ok THEN 1 ELSE 0)
       IN IF ok
          THEN /\ buf' = "ptr" /\ bufCap' = size
               /\ log' = Append(log, c)
               /\ pc' = "w_fread"
               /\ UNCHANGED <<size, ret>>
          ELSE IF NeedRetry(size)
               THEN /\ size' = BUF_SIZE
                    /\ log' = Append(log, c)
                    /\ UNCHANGED <<pc, buf, bufCap, ret>>
               ELSE /\ log' = Append(log, c)
                              \o <<Call("fclose", "file", 0, 0, 0)>>
                    /\ pc' = "close" /\ ret' = 1
                    /\ UNCHANGED <<size, buf, bufCap>>
  /\ UNCHANGED <<prVars, cmd, offset, len, srcSize, fdMode, n, err, bufFrom, dataVars,
                 regVars, cmdRet, overrun>>

\* bytes fread(buf, sz, 1, fp) may move into the buffer: all that is asked
\* for, or all the file still holds when that is less; a read that ends in
\* an error has moved any part of that before the error, short of the item
FreadBytes(sz, pos, ioerr) ==
  LET avail == IF pos < srcSize THEN srcSize - pos ELSE 0
      most  == IF ULt(sz, avail) THEN sz ELSE avail
  IN IF ioerr
     THEN {k \in {0, 1, most - 1, most} : 0 <= k /\ k <= most /\ (k # sz \/ sz = 0)}
     ELSE {most}

\* items fread(buf, sz, 1, fp) reports: 1 only for a complete item of
\* non-zero size
FreadItems(sz, got, ioerr) == IF ~ioerr /\ sz # 0 /\ got = sz THEN 1 ELSE 0

\* the calls of one pass from fread on: the error exit follows a fread
\* that did not deliver the item
WFreadCalls(sz, items, ioerr) ==
  <<Call("fread", "file", filepos, sz, items)>>
    \o (IF items # 1 \/ ioerr THEN WFailCalls ELSE <<>>)

\* if (n <= size) size = n;
\* if (fread(buf, size, 1, fp) != 1 || ferror(fp)) { free; fclose; return 1; }
WFread ==
  /\ pc = "w_fread"
  /\ LET sz == ChunkSize(n, size)
     IN \E ioerr \in BOOLEAN :
          \E got \in FreadBytes(sz, filepos, ioerr) :
            LET items == FreadItems(sz, got, ioerr)
            IN /\ size' = sz
               /\ filepos' = filepos + got
               /\ bufFrom' = filepos
               /\ overrun' = (overrun \/ ULt(bufCap, got))
               /\ log' = log \o WFreadCalls(sz, items, ioerr)
               /\ IF items # 1 \/ ioerr
                  THEN pc' = "close" /\ ret' = 1
                  ELSE pc' = "w_write" /\ UNCHANGED ret
  /\ UNCHANGED <<prVars, cmd, offset, len, srcSize, fdMode, n, err, buf, bufCap, devpos,
                 outFile, devData, regVars, cmdRet>>

\* the device write counts as done: not (err < 0)
WChunkWritten(w, sz) == ~(w < 0)

\* err = write(fd, buf, size); if (err < 0) { free; fclose; return 1; }
\* n -= size; } while (n > 0);
WWrite ==
  /\ pc = "w_write"
  /\ \E w \in WriteDevResults(size, devpos) :
       LET c == Call("write", "dev", devpos, size, w)
       IN /\ err' = w
          /\ devData' = IF w > 0
                        THEN Append(devData, [at |-> devpos, from |-> bufFrom,
                                              cnt |-> w])
                        ELSE devData
          /\ devpos' = IF w > 0 THEN devpos + w ELSE devpos
          /\ IF ~WChunkWritten(w, size)
             THEN /\ log' = Append(log, c) \o WFailCalls
                  /\ pc' = "close" /\ ret' = 1
                  /\ UNCHANGED n
             ELSE /\ n' = Sub32(n, size)
                  /\ IF n' > 0
                     THEN /\ log' = Append(log, c)
                          /\ pc' = "w_fread"
                          /\ UNCHANGED ret
                     ELSE /\ log' = Append(log, c) \o WExitCalls
                          /\ pc' = "close" /\ ret' = 0
  /\ UNCHANGED <<prVars, cmd, offset, len, srcSize, fdMode, size, buf, bufCap, bufFrom,
                 filepos, outFile, regVars, cmdRet, overrun>>

\* ------------------------------------------------------------------------
\* after a transfer ran past the end of the staging buffer the heap is
\* damaged: the library calls of the cleanup that work on the heap may kill
\* the process instead of returning
KillPoints(calls) ==
  {j \in 1..Len(calls) : calls[j].call \in {"free", "fclose"}}

\* the process is killed inside free(buf) or fclose(fp): the calls up to that
\* one were made, the transfer does not return and the device is not closed
Crash ==
  /\ \/ /\ pc = "f2f_write"
        /\ overrun
        /\ \E w \in WriteFileResults(err) :
             /\ err' = w
             /\ outFile' = IF w > 0 THEN Append(outFile, <<bufFrom, w>>)
                           ELSE outFile
             /\ \E j \in KillPoints(F2fWriteCalls(w)) :
                  log' = log \o SubSeq(F2fWriteCalls(w), 1, j)
        /\ UNCHANGED <<size, bufFrom, filepos, overrun>>
     \/ /\ pc = "w_fread"
        /\ LET sz == ChunkSize(n, size)
           IN \E ioerr \in BOOLEAN :
                \E got \in FreadBytes(sz, filepos, ioerr) :
                  LET calls == WFreadCalls(sz, FreadItems(sz, got, ioerr), ioerr)
                  IN /\ ULt(bufCap, got)
                     /\ size' = sz
                     /\ filepos' = filepos + got
                     /\ bufFrom' = filepos
                     /\ overrun' = TRUE
                     /\ \E j \in KillPoints(calls) :
                          log' = log \o SubSeq(calls, 1, j)
        /\ UNCHANGED <<err, outFile>>
  /\ pc' = "crashed"
  /\ UNCHANGED <<prVars, cmd, offset, len, srcSize, fdMode, n, buf, bufCap, devpos,
                 devData, regVars, ret, cmdRet>>

Next ==
  \/ OpenDevice
  \/ CloseDevice
  \/ GetMemInfo
  \/ GetRegionCount
  \/ GetRegionInfo
  \/ MemErase
  \/ F2fLseek
  \/ F2fCreat
  \/ F2fMalloc
  \/ F2fRead
  \/ F2fWrite
  \/ WLseek
  \/ WFopen
  \/ WMalloc
  \/ WFread
  \/ WWrite
  \/ Crash

Spec == Init /\ [][Next]_vars

\* -------------------------------------------------------------- printsize
\* static const char *flags = "KMGT";
Flags == <<"K", "M", "G", "T">>

\* x / 1024 on a u_int32_t
UDiv1024(x) ==
  IF x >= 0 THEN x \div 1024
  ELSE ((x + 2147483647) + 1) \div 1024 + 2097152

\* variant: the loop goes on only while x > 1024
RECURSIVE ScaleLoopM(_, _)
ScaleLoopM(x, k) ==
  IF ULt(1024, x) /\ k < Len(Flags)
  THEN ScaleLoopM(UDiv1024(x), k + 1)
  ELSE [x |-> x, i |-> k]

\* for (i = 0; x >= 1024 && flags[i] != '\0'; i++) x /= 1024;
\* gives x and i as the loop leaves them
RECURSIVE ScaleLoop(_, _)
ScaleLoop(x, k) ==
  IF ~ULt(x, 1024) /\ k < Len(Flags)
  THEN ScaleLoop(UDiv1024(x), k + 1)
  ELSE [x |-> x, i |-> k]

\* printf("%u ", x); the loop; i--; if (i >= 0) printf("(%u%c)", x, flags[i]);
\* as the list of values printed, the second with its suffix
printsize(x) ==
  LET r == ScaleLoop(x, 0)
      k == r.i - 1
  IN <<[val |-> x, suffix |-> ""]>>
     \o (IF k >= 0 THEN <<[val |-> r.x, suffix |-> Flags[k + 1]]>> ELSE <<>>)

\* sizes handed to printsize; the negative patterns are values from 2^31 up
PrintInputs ==
  {a * b + d : a \in (1..7) \cup {511, 512, 1023},
               b \in {1, 1024, 1024 * 1024}, d \in {-1, 0, 1}}
  \cup {1024 * 1024 * 1024 + d : d \in {-1, 0, 1}}
  \cup {2147483647, -2147483647, -1073741824, -1025, -1024, -1}

\* one call printsize(x)
PrintSize ==
  /\ pc = "printsize"
  /\ pout' = printsize(px)
  /\ pc' = "printed"
  /\ UNCHANGED <<px, cmd, offset, len, srcSize, fdMode, xferVars, dataVars,
                 regVars, ret, cmdRet, overrun, log>>

InitPS ==
  /\ px \in PrintInputs
  /\ pout = <<>>
  /\ pc = "printsize"
  /\ cmd = "info" /\ offset = 0 /\ len = 0 /\ srcSize = 0
  /\ fdMode = "none"
  /\ size = 0 /\ n = 0 /\ err = 0
  /\ buf = "NULL" /\ bufCap = 0 /\ bufFrom = 0
  /\ devpos = 0 /\ filepos = 0
  /\ outFile = <<>> /\ devData = <<>>
  /\ region = [k \in 0..(MaxRegions - 1) |-> ZeroRegion]
  /\ nreg = 0 /\ i = 0
  /\ ret = -1 /\ cmdRet = -1
  /\ overrun = FALSE
  /\ log = <<>>

NextPS == PrintSize

SpecPS == InitPS /\ [][NextPS]_vars

\* ========================================================== properties
\* the delegated operation has returned to the command
OpReturned == ret # -1

IsWrite(c)  == c.call = "write"
IsMalloc(c) == c.call = "malloc"
IsFread(c)  == c.call = "fread"
IsRegionInfo(c) == c.call = "MEMGETREGIONINFO"

\* a write that reported a non-negative count below the count asked for
IsShortWrite(c) == IsWrite(c) /\ 0 <= c.res /\ c.res < c.req

RECURSIVE SumReq(_)
SumReq(s) == IF s = <<>> THEN 0 ELSE Head(s).req + SumReq(Tail(s))

RECURSIVE SumCnt(_)
SumCnt(s) == IF s = <<>> THEN 0 ELSE Head(s)[2] + SumCnt(Tail(s))

\* ----------------------------------------------------------------- C1
\* C1: in both directions, once a destination write reports a non-negative
\* count below the count it was asked to write, the transfer returns
\* failure and issues no further write to that destination.
ShortWriteAborts ==
  \A k \in 1..Len(log) :
    IsShortWrite(log[k]) =>
      /\ OpReturned => ret = 1
      /\ \A j \in (k + 1)..Len(log) :
           ~(IsWrite(log[j]) /\ log[j].obj = log[k].obj)

\* ----------------------------------------------------------------- C2
\* C2 as stated: in flash_to_file, after a read that returned fewer bytes
\* than the chunk asked for (0 <= err < size), writing those bytes in full
\* lets the loop go on: the remaining count drops by size and the transfer
\* has not failed.
ShortReadContinues ==
  [][(pc = "f2f_write" /\ 0 <= err /\ err < size /\ err' = err /\ pc' # pc)
       => (n' = Sub32(n, size) /\ ret' # 1)]_vars

\* C2 as the code has it: in flash_to_file, after a read that returned r
\* bytes with 0 <= r < size (size taken as the size_t the read was asked
\* for), the next step is one write of exactly those r bytes to the
\* destination file, after which the transfer takes the fail path whatever
\* that write reports: the remaining count is left as it was, no further
\* read or write is made and success is not returned.  The transfer returns
\* failure after close(outfd) and free(buf), unless the read had overrun the
\* buffer and the process is killed in that free(buf).
ShortReadWritesThenFails ==
  [][(pc = "f2f_write" /\ 0 <= err /\ ULt(err, size))
       => /\ Len(log') = Len(log) + 3
          /\ log'[Len(log) + 1].call = "write"
          /\ log'[Len(log) + 1].obj = "file"
          /\ log'[Len(log) + 1].req = err
          /\ log'[Len(log) + 2].call = "close"
          /\ log'[Len(log) + 3].call = "free"
          /\ (err' > 0 => outFile' = Append(outFile, <<bufFrom, err'>>))
          /\ n' = n
          /\ \/ ret' = 1 /\ pc' = "close"
             \/ ret' = -1 /\ pc' = "crashed" /\ ULt(bufCap, err)]_vars

\* a short read of r > 0 bytes, all r written, and the transfer failed
ShortReadWitness ==
  \E k \in 1..Len(log) :
    /\ k + 1 <= Len(log)
    /\ log[k].call = "read" /\ 0 < log[k].res /\ log[k].res < log[k].req
    /\ IsWrite(log[k + 1]) /\ log[k + 1].res = log[k].res
    /\ ret = 1
    /\ pc = "done"

\* ----------------------------------------------------------------- C3
\* the destination file holds the device bytes from position `from` on,
\* in order, `total` of them
HoldsRange(f, from, total) ==
  /\ SumCnt(f) = total
  /\ \A k \in 1..Len(f) :
       f[k][1] = from + SumCnt(SubSeq(f, 1, k - 1))

\* C3: when flash_to_file returns success for 0 <= len < 2^31, the bytes
\* written to the destination file are exactly len bytes, those of the
\* device from offset on, in order; a run that left fewer than len bytes
\* in the file has returned failure.
ReadOutExact ==
  (cmd = "read" /\ len >= 0 /\ OpReturned) =>
    /\ ret = 0 => HoldsRange(outFile, offset, len)
    /\ SumCnt(outFile) < len => ret = 1

\* ----------------------------------------------------------------- C4
\* the source file is shorter than the declared length (len > 0)
ShortSource == cmd = "write" /\ len # 0 /\ ULt(srcSize, len)

DevWrites == SelectSeq(log, IsWrite)

\* C4: for every len > 0 and a source file of F < len bytes, file_to_flash
\* fails on the first chunk the file cannot fill: that fread reports no
\* item, the transfer returns failure and neither a device write nor
\* another fread follows; the device writes issued until then ask for at
\* most F bytes in total.
ShortSourceFails ==
  ShortSource =>
    /\ OpReturned => ret = 1
    /\ SumReq(DevWrites) <= srcSize
    /\ \A k \in 1..Len(log) :
         (IsFread(log[k]) /\ ULt(srcSize - log[k].at, log[k].req)) =>
           /\ log[k].res = 0
           /\ ret = 1
           /\ \A j \in (k + 1)..Len(log) : log[j].call \in {"free", "fclose", "close"}

\* ----------------------------------------------------------------- C5
Mallocs == SelectSeq(log, IsMalloc)

\* the allocation phase of the transfer is over
AllocDone == Mallocs # <<>> /\ pc \notin {"f2f_malloc", "w_malloc"}

NoTransferCall ==
  \A k \in 1..Len(log) : log[k].call \notin {"read", "write", "fread"}

\* C5 as stated: for all lengths, when the first allocation fails exactly
\* one more allocation is attempted, of exactly 64 KiB.
AlwaysOneFallback ==
  (AllocDone /\ Mallocs[1].res = 0) =>
    (Len(Mallocs) = 2 /\ Mallocs[2].req = BUF_SIZE)

\* C5 as the code has it: the first allocation asks for L; when it fails
\* and L is not 64 KiB exactly one more is attempted, of exactly 64 KiB;
\* when it fails and L is 64 KiB no second attempt is made; when the last
\* attempt failed the transfer returns failure without any read or write;
\* never more than two attempts, never a size other than L and 64 KiB.
FallbackOnceUnlessSameSize ==
  /\ Len(Mallocs) <= 2
  /\ \A m \in 1..Len(Mallocs) : Mallocs[m].req \in {len, BUF_SIZE}
  /\ Mallocs # <<>> => Mallocs[1].req = len
  /\ Len(Mallocs) = 2 => (Mallocs[1].res = 0 /\ Mallocs[2].req = BUF_SIZE)
  /\ (AllocDone /\ Mallocs[1].res = 0 /\ len # BUF_SIZE) => Len(Mallocs) = 2
  /\ (AllocDone /\ Mallocs[1].res = 0 /\ len = BUF_SIZE) => Len(Mallocs) = 1
  /\ (AllocDone /\ Mallocs[Len(Mallocs)].res = 0) =>
        (ret = 1 /\ NoTransferCall)

\* first allocation failed, the 64 KiB one succeeded and the copy went on
FallbackWitness ==
  /\ Len(Mallocs) = 2 /\ Mallocs[1].res = 0 /\ Mallocs[2].res = 1
  /\ Mallocs[2].req = BUF_SIZE
  /\ ret = 0

\* ----------------------------------------------------------------- C6
\* C6: each of the four commands returns a failure result whenever the
\* operation it delegates to failed after the device was opened (for
\* mtd_debug_info: when the get-info, region-count or per-region query
\* failed).
CommandReportsFailure ==
  (pc = "done" /\ ret = 1) => cmdRet # 0

\* ----------------------------------------------------------------- C7
IsDevClose(c) == c.call = "close" /\ c.obj = "dev"

DevCloses == SelectSeq(log, IsDevClose)

DevOpened == \E k \in 1..Len(log) : log[k].call = "open" /\ log[k].res >= 0

\* C7: once the device is open, its handle is closed exactly once, after
\* the delegated operation has returned and before the command returns,
\* on every path the command can end on, failed operations included;
\* nothing is issued on the handle after the close.
DeviceClosedOnce ==
  /\ Len(DevCloses) <= 1
  /\ \A k \in 1..Len(log) : IsDevClose(log[k]) => (k = Len(log) /\ OpReturned)
  /\ DevCloses # <<>> => DevOpened
  /\ (DevOpened /\ pc \in {"done", "died", "crashed"}) => Len(DevCloses) = 1
  /\ cmdRet # -1 => Len(DevCloses) = 1

\* ----------------------------------------------------------------- C8
IsAlloc(c)    == c.call = "malloc" /\ c.res = 1
IsFree(c)     == c.call = "free" /\ c.req = 1
IsFileOpen(c) == (c.call = "creat" /\ c.res >= 0) \/ (c.call = "fopen" /\ c.res = 1)
IsFileClose(c) == (c.call = "close" /\ c.obj = "file") \/ c.call = "fclose"

Count(s, T(_)) == Len(SelectSeq(s, T))

\* C8: on every exit path of flash_to_file and file_to_flash, once the
\* path has ended, no staging buffer of the call is still allocated and
\* none was freed twice, the file the call opened is closed exactly once
\* (and no file is closed when none was opened), and the device handle has
\* not been closed by the transfer.
TransferReleasesAll ==
  /\ \A k \in 1..Len(log) :
       /\ Count(SubSeq(log, 1, k), IsFree) <= Count(SubSeq(log, 1, k), IsAlloc)
       /\ Count(SubSeq(log, 1, k), IsFileClose) <= Count(SubSeq(log, 1, k), IsFileOpen)
  /\ (cmd \in {"read", "write"} /\ (OpReturned \/ pc = "crashed")) =>
       /\ Count(log, IsFree) = Count(log, IsAlloc)
       /\ Count(log, IsFileClose) = Count(log, IsFileOpen)
  /\ (cmd \in {"read", "write"} /\ pc \notin {"done", "died"}) => DevCloses = <<>>

\* ----------------------------------------------------------------- C9
RegionQueries == SelectSeq(log, IsRegionInfo)

IsCountOk(c) == c.call = "MEMGETREGIONCOUNT" /\ c.res = 0
IsCountFailed(c) == c.call = "MEMGETREGIONCOUNT" /\ c.res # 0

\* C9: getregions asks for the region count first; when that fails or
\* reports 0 no region is queried; otherwise regions are queried in
\* ascending index order 0, 1, ..., one query per index, at most N of
\* them, a failing query being the last; when all N succeed exactly N
\* were made and the k-th stored region has regionindex k.
RegionsEnumerated ==
  /\ RegionQueries # <<>> => Count(log, IsCountOk) = 1
  /\ Count(log, IsCountFailed) > 0 => RegionQueries = <<>>
  /\ (Count(log, IsCountOk) = 1 /\ nreg = 0) => RegionQueries = <<>>
  /\ Len(RegionQueries) <= nreg
  /\ \A m \in 1..Len(RegionQueries) :
       /\ RegionQueries[m].at = m - 1
       /\ region[m - 1].regionindex = m - 1
       /\ RegionQueries[m].res # 0 => m = Len(RegionQueries)
  /\ \A k \in 1..Len(log) : \A j \in 1..Len(log) :
       (IsRegionInfo(log[k]) /\ log[j].call = "MEMGETREGIONCOUNT") => j < k
  /\ (cmd = "info" /\ ret = 0) =>
       /\ Len(RegionQueries) = nreg
       /\ \A m \in 1..Len(RegionQueries) : RegionQueries[m].res = 0
       /\ \A k \in 0..(nreg - 1) :
            region[k] = [regionindex |-> k, offset |-> DevRegion(k).offset,
                         erasesize |-> DevRegion(k).erasesize,
                         numblocks |-> DevRegion(k).numblocks]

\* a device with several regions enumerated in full
RegionsEnumeratedWitness ==
  /\ cmd = "info" /\ ret = 0
  /\ nreg >= 2 /\ Len(RegionQueries) = nreg

\* ---------------------------------------------------------------- C10
\* a seek, file open/create, read, write or ioctl that reported failure
IsFailedStep(c) ==
  \/ c.call = "lseek" /\ c.res = -1
  \/ c.call = "creat" /\ c.res < 0
  \/ c.call = "fopen" /\ c.res = 0
  \/ c.call = "read"  /\ c.res < 0
  \/ c.call = "write" /\ c.res < 0
  \/ c.call = "fread" /\ c.res # 1
  \/ c.call \in IoctlNames /\ c.res # 0

\* C10: apart from the 64 KiB allocation fallback nothing is retried:
\* after the first failing seek, file open/create, read, write or ioctl
\* the operation issues only buffer release and file close (then the
\* command closes the device) and has returned failure.
NoRetryAfterFailure ==
  \A k \in 1..Len(log) :
    IsFailedStep(log[k]) =>
      /\ ret = 1
      /\ \A j \in (k + 1)..Len(log) :
           \/ IsFree(log[j])
           \/ IsFileClose(log[j])
           \/ (IsDevClose(log[j]) /\ j = Len(log))

\* ---------------------------------------------------------------- C11
\* Round trip: a read-out of [offset, offset+len) of device A into a file,
\* then a write-in of that file at the same offset and length to a fresh
\* device B.  After the second command started, outFile is the source
\* file, devpos and devData are those of device B.

\* the read-out command returned success; mtd_debug_write is now called
\* with the same offset and length on the file just written
ReadThenWrite ==
  /\ pc = "done"
  /\ cmd = "read"
  /\ cmdRet = 0
  /\ cmd' = "write"
  /\ srcSize' = SumCnt(outFile)
  /\ pc' = "open"
  /\ fdMode' = "none"
  /\ size' = 0 /\ n' = 0 /\ err' = 0
  /\ buf' = "NULL" /\ bufCap' = 0 /\ bufFrom' = 0
  /\ devpos' = 0 /\ filepos' = 0
  /\ devData' = <<>>
  /\ ret' = -1 /\ cmdRet' = -1
  /\ UNCHANGED <<prVars, offset, len, outFile, regVars, overrun, log>>

\* a read-out of a range within the device
InitRT ==
  /\ Init
  /\ cmd = "read"
  /\ len >= 0
  /\ offset >= 0
  /\ offset + len <= DevSize

NextRT ==
  \/ OpenDevice
  \/ CloseDevice
  \/ F2fLseek
  \/ F2fCreat
  \/ F2fMalloc
  \/ F2fRead
  \/ F2fWrite
  \/ ReadThenWrite
  \/ WLseek
  \/ WFopen
  \/ WMalloc
  \/ WFread
  \/ WWrite

SpecRT == InitRT /\ [][NextRT]_vars

\* no call on the device or on the file failed or moved fewer bytes than
\* asked
NoIoFault ==
  \A k \in 1..Len(log) :
    LET c == log[k]
    IN /\ c.call = "open"  => c.res >= 0
       /\ c.call = "close" => c.res = 0
       /\ c.call = "lseek" => c.res = c.at
       /\ c.call = "creat" => c.res >= 0
       /\ c.call = "fopen" => c.res = 1
       /\ c.call \in {"read", "write"} => c.res = c.req
       /\ c.call = "fread" => (c.res = 1 \/ c.req = 0)

\* the bytes device B received are, position by position, those of the
\* file: the file byte q went to offset + q, for every q below len, and
\* nothing else was written
WrittenBack(w, from, total) ==
  /\ \A k \in 1..Len(w) :
       /\ w[k].cnt > 0
       /\ w[k].at = from + w[k].from
       /\ w[k].from = SumReq([j \in 1..(k - 1) |-> [req |-> w[j].cnt]])
  /\ SumReq([j \in 1..Len(w) |-> [req |-> w[j].cnt]]) = total

\* C11: when no I/O call fails or transfers short and each direction got a
\* staging buffer (of the full length or of 64 KiB), after read-out of
\* [offset, offset+len) from device A to a file and write-in of that file
\* at the same offset and length to device B, the file holds A's bytes of
\* the range in order and B holds, at every position of the range, the
\* byte A holds there; no position of B outside the range was written.
RoundTrip ==
  (cmd = "write" /\ pc = "done" /\ NoIoFault /\ Count(log, IsAlloc) = 2) =>
    /\ HoldsRange(outFile, offset, len)
    /\ WrittenBack(devData, offset, len)

\* a round trip of more than 64 KiB, through the fallback buffer on one
\* side, that wrote device B in several chunks
RoundTripWitness ==
  /\ cmd = "write" /\ pc = "done" /\ NoIoFault /\ Count(log, IsAlloc) = 2
  /\ cmdRet = 0
  /\ len > BUF_SIZE
  /\ Len(devData) >= 2
  /\ Count(log, IsMalloc) = 3

\* ---------------------------------------------------------------- C12
IsErase(c) == c.call = "MEMERASE"

Erases == SelectSeq(log, IsErase)

\* C12: erase_flash issues exactly one erase command per call, with start
\* and length exactly the offset and byte count it was given, whatever
\* they are, and nothing else on the device; it returns failure if and
\* only if the driver reported an error for that command, success
\* otherwise.
EraseOnce ==
  cmd = "erase" =>
    /\ Len(Erases) <= 1
    /\ \A k \in 1..Len(Erases) : Erases[k].at = offset /\ Erases[k].req = len
    /\ \A k \in 1..Len(log) : log[k].call \in {"open", "MEMERASE", "close"}
    /\ OpReturned =>
         /\ Len(Erases) = 1
         /\ ret \in {0, 1}
         /\ ret = 1 <=> Erases[1].res < 0

\* an erase of one byte, handed to the driver as given and refused by it
EraseOnceWitness ==
  /\ cmd = "erase" /\ pc = "done"
  /\ len = 1
  /\ Len(Erases) = 1 /\ Erases[1].req = 1 /\ Erases[1].res < 0
  /\ ret = 1

\* ---------------------------------------------------------------- C13
\* a call that changes device contents
IsDevChange(c) == (c.call = "write" /\ c.obj = "dev") \/ c.call = "MEMERASE"

\* C13: info and read-out open the device read-only, write-in and erase
\* open it read-write; a device write or an erase command is only ever
\* issued on a handle opened read-write, and info and read-out issue no
\* device write and no erase.
AccessModes ==
  /\ ~DevOpened => fdMode = "none"
  /\ (DevOpened /\ cmd \in {"info", "read"}) => fdMode = "O_RDONLY"
  /\ (DevOpened /\ cmd \in {"write", "erase"}) => fdMode = "O_RDWR"
  /\ \A k \in 1..Len(log) : IsDevChange(log[k]) => fdMode = "O_RDWR"
  /\ cmd \in {"info", "read"} =>
       /\ \A k \in 1..Len(log) : ~IsDevChange(log[k])
       /\ devData = <<>>

\* a read-out that copied data, on a read-only handle
AccessModesWitness ==
  /\ cmd = "read" /\ pc = "done" /\ ret = 0 /\ len > 0
  /\ fdMode = "O_RDONLY"

\* ---------------------------------------------------------------- C14
\* x integer-divided by 1024 k times, for a 32-bit unsigned x: the
\* division by 1024^k, which is 0 from k = 4 on
ScaledBy(x, k) ==
  CASE k = 0 -> x
    [] k = 1 -> IF x >= 0 THEN x \div 1024
                ELSE ((x + 2147483647) + 1) \div 1024 + 2097152
    [] k = 2 -> IF x >= 0 THEN x \div 1048576
                ELSE ((x + 2147483647) + 1) \div 1048576 + 2048
    [] k = 3 -> IF x >= 0 THEN x \div 1073741824
                ELSE ((x + 2147483647) + 1) \div 1073741824 + 2
    [] OTHER -> 0

\* C14: printsize prints the raw value x first; for x < 1024 nothing more;
\* for x >= 1024 a scaled value and a suffix: the scaled value is x
\* integer-divided by 1024 k times, k in 1..4 being the number of
\* divisions made until the value is below 1024 or K, M, G, T are used
\* up, the suffix is the k-th of K, M, G, T, and the scaled value is below
\* 1024.
PrintsizeScaled ==
  pc = "printed" =>
    /\ Len(pout) >= 1
    /\ pout[1] = [val |-> px, suffix |-> ""]
    /\ ULt(px, 1024) => Len(pout) = 1
    /\ ~ULt(px, 1024) =>
         /\ Len(pout) = 2
         /\ \E k \in 1..4 :
              /\ pout[2].val = ScaledBy(px, k)
              /\ pout[2].suffix = <<"K", "M", "G", "T">>[k]
              /\ \A j \in 0..(k - 1) : ~ULt(ScaledBy(px, j), 1024)
              /\ (ULt(ScaledBy(px, k), 1024) \/ k = 4)
         /\ 0 <= pout[2].val /\ pout[2].val < 1024

\* a value of 2^31 or more printed with its G suffix
PrintsizeWitness ==
  /\ pc = "printed"
  /\ px < 0
  /\ Len(pout) = 2 /\ pout[2].suffix = "G"

\* ---------------------------------------------------------------- C15
\* the call each iteration of a copy loop starts with
IsLoopStart(c) == c.call \in {"read", "fread"}

Iters == SelectSeq(log, IsLoopStart)

CeilDiv(a, b) == (a + b - 1) \div b

MinOf(a, b) == IF a <= b THEN a ELSE b

\* a transfer of a length between 1 and 2^31 - 1
PlainTransfer == cmd \in {"read", "write"} /\ len > 0

LoopInv ==
  PlainTransfer =>
    /\ 0 <= n /\ n <= len
    /\ Iters # <<>> =>
         /\ bufCap \in {len, BUF_SIZE}
         /\ Len(Iters) <= CeilDiv(len, MinOf(bufCap, len))
    /\ \A m \in 1..Len(Iters) :
         LET before == len - SumReq(SubSeq(Iters, 1, m - 1))
         IN /\ Iters[m].req = MinOf(bufCap, before)
            /\ Iters[m].req >= 1
    /\ SumReq(Iters) <= len
    /\ \A k \in 1..Len(log) :
         (log[k].obj = "dev" /\ log[k].call \in {"read", "write"}) =>
           (offset <= log[k].at /\ log[k].at + log[k].req <= offset + len)

LoopStep ==
  (PlainTransfer /\ pc \in {"f2f_write", "w_write"} /\ n' # n) =>
    (0 <= n' /\ n' < n)

\* C15: for 0 < len < 2^31 and a buffer of len or of 64 KiB bytes, a copy
\* loop makes at most ceil(len / min(B, len)) iterations; each iteration
\* asks for min(B, remaining) bytes, at least 1; the remaining count only
\* ever decreases and never becomes negative; the chunk sizes asked for
\* add up to at most len and no device read or write reaches past
\* offset + len.
LoopBounded == []LoopInv /\ [][LoopStep]_vars

\* ---------------------------------------------------------------- C16
IsTransferCall(c) == c.call \in {"read", "fread", "write"}

\* C16: for every length up to 2^32 - 1, once the copy loop runs the
\* remaining-byte counter stays within [0, len] and every chunk size
\* passed to read, fread or write is within the capacity of the staging
\* buffer.
ChunkWithinBuffer ==
  (cmd \in {"read", "write"} /\ Iters # <<>>) =>
    /\ 0 <= n /\ ~ULt(len, n)
    /\ \A k \in 1..Len(log) :
         IsTransferCall(log[k]) => ~ULt(bufCap, log[k].req)

\* ---------------------------------------------------------------- C17
\* lseek set the position / lseek reported failure (-1)
IsSeekOk(c)     == c.call = "lseek" /\ c.res # -1
IsSeekFailed(c) == c.call = "lseek" /\ c.res = -1

\* some call before the k-th satisfies T
Earlier(k, T(_)) == \E j \in 1..(k - 1) : T(log[j])

IsFopenOk(c) == c.call = "fopen" /\ c.res = 1

\* C17: flash_to_file creates or truncates the destination file only
\* after the device seek succeeded, so a failed seek leaves the file
\* untouched; file_to_flash issues no device write unless the device
\* seek, the opening of the source file and a buffer allocation have all
\* succeeded before.
SetupBeforeEffects ==
  /\ \A k \in 1..Len(log) :
       /\ log[k].call = "creat" => Earlier(k, IsSeekOk)
       /\ (IsWrite(log[k]) /\ log[k].obj = "dev") =>
            /\ Earlier(k, IsSeekOk)
            /\ Earlier(k, IsFopenOk)
            /\ Earlier(k, IsAlloc)
  /\ Count(log, IsSeekFailed) > 0 =>
       /\ \A k \in 1..Len(log) : log[k].call \notin {"creat", "write"}
       /\ outFile = <<>> /\ devData = <<>>

\* ---------------------------------------------------------------- C18
\* the seek and the file open succeeded, a buffer was obtained (at the
\* first attempt or through the fallback) and no read or write reported
\* an error
SetupAndIoOk ==
  /\ Count(log, IsSeekOk) = 1
  /\ Count(log, IsFileOpen) = 1
  /\ Count(log, IsAlloc) = 1
  /\ \A k \in 1..Len(log) :
       log[k].call \in {"read", "write"} => log[k].res >= 0

\* C18: a transfer of length 0 returns success in both directions, moves
\* no bytes and leaves the device contents unchanged, whether the
\* zero-size allocation succeeded or the fallback buffer was used.
ZeroLengthSucceeds ==
  (cmd \in {"read", "write"} /\ len = 0 /\ OpReturned /\ SetupAndIoOk) =>
    /\ ret = 0
    /\ outFile = <<>>
    /\ devData = <<>>

====
